---- MODULE Spec2Model ----
(***************************************************************************)
(* A model of mygdal.py: the raster geo-referencing class Mygdal, the      *)
(* tagged table parser MyTCSV and its specializations Timeline and         *)
(* Samples.                                                                *)
(*                                                                         *)
(* Geolocations and geotransform coefficients are modelled by integers     *)
(* (floats holding integral values); text is modelled by sequences of      *)
(* one-character strings, so that strip, split and find are computed.      *)
(***************************************************************************)
EXTENDS Integers, Sequences, FiniteSets, TLC

VARIABLES
    \* ---- Mygdal ----
    ds,          \* the Mygdal object: size and affine parameters
    gcall,       \* the last Mygdal method call: [op, arg, ret]
    \* ---- MyTCSV, Timeline, Samples ----
    input,       \* the constructor's arguments and the files it finds
    phase,       \* "new", "ready" (constructed) or "failed" (__init__ raised)
    err,         \* the exception the last __init__ or fetch_data raised
    file,        \* self.file: the lines not yet read
    row,         \* self.__row__
    data,        \* self.data: the columns
    field_names, \* self.field_names
    tags,        \* self.tags
    doy_stack,   \* Timeline.doy_stack
    timeline,    \* Samples.timeline
    bands,       \* Samples.bands
    bands_factor,\* Samples.bands_factor
    nfetch,      \* the number of fetch_data calls made
    tcall,       \* the last query made of the parser: [op, arg, ret, err]
    \* ---- time series ----
    tline,       \* a Timeline whose table holds typed data
    samples,     \* a Samples extractor, its timeline and its band rasters
    scall,       \* the last time-series call: [op, arg, ret, err]
    \* ---- random sampling ----
    rng,         \* the state of numpy's global random generator
    rcalls,      \* the random-sampling calls made so far, with their outcomes
    \* ---- lifecycle ----
    owner        \* a Samples extractor and the resources it holds

geovars == <<ds, gcall>>

tvars == <<input, phase, err, file, row, data, field_names, tags,
           doy_stack, timeline, bands, bands_factor, nfetch, tcall>>

svars == <<tline, samples, scall>>

rvars == <<rng, rcalls>>

cvars == <<owner>>

vars == <<geovars, tvars, svars, rvars, cvars>>

(***************************************************************************)
(* Bounds of the model                                                     *)
(***************************************************************************)
MaxSize == 2          \* raster width and height range over 1..MaxSize
MaxRes == 2           \* |resolution| ranges over 1..MaxRes
MaxSkew == 1          \* skew ranges over -MaxSkew..MaxSkew
MaxPoints == 2        \* points per array handed to a Mygdal method
MaxLines == 3         \* lines of a table file after its tag lines
MaxFetch == 2         \* fetch_data calls on one parser
MaxLayers == 2        \* bands of a raster stack, rows of a timeline table
MaxSamples == 2       \* rows of a samples table, entries of samples_index

(***************************************************************************)
(* Arithmetic helpers                                                      *)
(***************************************************************************)
Abs(x) == IF x < 0 THEN -x ELSE x

\* numpy.sign
Sign(x) == IF x > 0 THEN 1 ELSE IF x < 0 THEN -1 ELSE 0

\* numpy.floor_divide followed by the replacement of non-finite quotients
\* by 0 (lines 139-142): a division by zero gives inf or nan, hence 0;
\* otherwise the quotient rounded toward negative infinity.
floor_divide(a, b) ==
    IF b = 0 THEN 0
    ELSE LET q == Abs(a) \div Abs(b)
             exact == (q * Abs(b) = Abs(a))
         IN  IF Sign(a) * Sign(b) >= 0 THEN q
             ELSE IF exact THEN -q ELSE -(q + 1)

\* ord_pair(i, j): a two-element array
ord_pair(i, j) == <<i, j>>

(***************************************************************************)
(* Mygdal                                                                  *)
(***************************************************************************)
\* pixels_to_geolocs on one point, element-wise over the two axes
PixelToGeoloc(ul, res, skew, p) ==
    [a \in 1..2 |-> ul[a] + res[a] * p[a] + skew[a] * p[a]]

\* Mygdal.__init__: the fields derived from the dataset's geotransform
MygdalInit(width, height, ul, res, skew) ==
    [ width |-> width, height |-> height,
      size |-> ord_pair(width, height),
      geo_resolution |-> res,
      geo_skew |-> skew,
      geo_ul |-> ul,
      geo_lr |-> PixelToGeoloc(ul, res, skew, ord_pair(width - 1, height - 1)) ]

\* Mygdal.pixels_to_geolocs on an array of points (empty in, empty out)
pixels_to_geolocs(self, pixels) ==
    IF Len(pixels) = 0 THEN <<>>
    ELSE [i \in 1..Len(pixels) |->
            PixelToGeoloc(self.geo_ul, self.geo_resolution, self.geo_skew, pixels[i])]

\* Mygdal.geolocs_to_pixels on an array of points
geolocs_to_pixels(self, geolocs) ==
    IF Len(geolocs) = 0 THEN <<>>
    ELSE [i \in 1..Len(geolocs) |->
            [a \in 1..2 |->
                LET result == geolocs[i][a] - self.geo_ul[a]
                IN  floor_divide(result, self.geo_resolution[a])
                    + floor_divide(result, self.geo_skew[a])]]

\* Mygdal.are_valid_pixels: any element below 0 AND above size
are_valid_pixels(self, pixels) ==
    \E i \in 1..Len(pixels) : \E a \in 1..2 :
        (pixels[i][a] < 0) /\ (pixels[i][a] > self.size[a])

\* Mygdal.are_valid_geolocs: any element below the sign-adjusted upper-left
\* AND above the sign-adjusted lower-right
are_valid_geolocs(self, geolocs) ==
    \E i \in 1..Len(geolocs) : \E a \in 1..2 :
        (geolocs[i][a] < self.geo_ul[a] * Sign(self.geo_resolution[a]))
        /\ (geolocs[i][a] > self.geo_lr[a] * Sign(self.geo_resolution[a]))

(***************************************************************************)
(* Text.  A string is a sequence of symbols: the one-character symbols     *)
(* "#", "=", ",", ";", ".", " ", "\n", the quote and the digits, and word  *)
(* symbols standing for a run of other characters ("has_header", "a.tif"). *)
(***************************************************************************)
Whitespace == {" ", "\n"}
Digits == {"0", "1", "2", "3", "4", "5", "6", "7", "8", "9"}

DigitVal(c) ==
    CASE c = "0" -> 0 [] c = "1" -> 1 [] c = "2" -> 2 [] c = "3" -> 3
      [] c = "4" -> 4 [] c = "5" -> 5 [] c = "6" -> 6 [] c = "7" -> 7
      [] c = "8" -> 8 [] c = "9" -> 9

\* str.lstrip(chars) / str.rstrip(chars) / str.strip(chars)
RECURSIVE lstrip(_, _)
lstrip(s, chars) ==
    IF Len(s) > 0 /\ s[1] \in chars THEN lstrip(Tail(s), chars) ELSE s

RECURSIVE rstrip(_, _)
rstrip(s, chars) ==
    IF Len(s) > 0 /\ s[Len(s)] \in chars
    THEN rstrip(SubSeq(s, 1, Len(s) - 1), chars) ELSE s

strip_chars(s, chars) == rstrip(lstrip(s, chars), chars)

\* str.strip(): whitespace off both ends
strip(s) == strip_chars(s, Whitespace)

\* s[a:b] with Python's 0-based bounds
slice(s, a, b) == SubSeq(s, a + 1, b)

\* str.find(c, start): the lowest 0-based index >= start holding c, or -1
find(s, c, start) ==
    LET hits == { i \in start..(Len(s) - 1) : s[i + 1] = c }
    IN  IF hits = {} THEN -1
        ELSE CHOOSE i \in hits : \A j \in hits : i <= j

\* str.split(sep) for a non-empty separator
RECURSIVE split(_, _)
split(s, sep) ==
    LET n == Len(sep)
        hits == { i \in 0..(Len(s) - n) : SubSeq(s, i + 1, i + n) = sep }
        first == CHOOSE i \in hits : \A j \in hits : i <= j
    IN  IF hits = {} THEN <<s>>
        ELSE <<slice(s, 0, first)>> \o split(slice(s, first + n, Len(s)), sep)

\* str.lower(), symbol by symbol
LowerSym(c) ==
    CASE c = "True" -> "true" [] c = "TRUE" -> "true"
      [] c = "False" -> "false" [] OTHER -> c

lower(s) == [i \in 1..Len(s) |-> LowerSym(s[i])]

\* the set of symbols of a string
Symbols(s) == { s[i] : i \in 1..Len(s) }

\* the number a run of digits denotes
RECURSIVE DigitsVal(_)
DigitsVal(s) ==
    IF Len(s) = 0 THEN 0
    ELSE 10 * DigitsVal(SubSeq(s, 1, Len(s) - 1)) + DigitVal(s[Len(s)])

(***************************************************************************)
(* Python values: None, str, bool, int, float (mantissa m scaled by        *)
(* 10^-e), datetime and list.                                              *)
(***************************************************************************)
PyNone == [t |-> "none"]
PyStr(s) == [t |-> "str", s |-> s]
PyBool(b) == [t |-> "bool", b |-> b]
PyInt(n) == [t |-> "int", n |-> n]
PyFloat(m, e) == [t |-> "float", m |-> m, e |-> e]
PyDate(y, m, d) == [t |-> "date", y |-> y, m |-> m, d |-> d]
PyList(l) == [t |-> "list", l |-> l]

\* the truth value of `v` in a condition
Truthy(v) ==
    CASE v.t = "none" -> FALSE
      [] v.t = "str" -> Len(v.s) > 0
      [] v.t = "bool" -> v.b
      [] v.t = "int" -> v.n # 0
      [] v.t = "float" -> v.m # 0
      [] v.t = "list" -> Len(v.l) > 0
      [] OTHER -> TRUE

\* v == 0 (False, 0 and 0.0 equal 0)
EqualsZero(v) ==
    CASE v.t = "bool" -> ~v.b
      [] v.t = "int" -> v.n = 0
      [] v.t = "float" -> v.m = 0
      [] OTHER -> FALSE

\* a returned value, or a raised exception
Ret(v) == [ret |-> v, err |-> "none"]
Exc(e) == [ret |-> PyNone, err |-> e]

\* int(s): whitespace stripped, then a non-empty run of digits
IsInt(s) == Len(strip(s)) > 0 /\ Symbols(strip(s)) \subseteq Digits

int(s) == IF IsInt(s) THEN Ret(PyInt(DigitsVal(strip(s)))) ELSE Exc("ValueError")

\* float(s): digits with at most one decimal point among them
float(s) ==
    LET u == strip(s)
        dot == find(u, ".", 0)
        whole == IF dot = -1 THEN u ELSE slice(u, 0, dot)
        frac0 == IF dot = -1 THEN <<>> ELSE slice(u, dot + 1, Len(u))
        frac == rstrip(frac0, {"0"})
    IN  IF Len(whole) + Len(frac0) > 0
           /\ Symbols(whole) \subseteq Digits /\ Symbols(frac0) \subseteq Digits
        THEN Ret(PyFloat(DigitsVal(whole \o frac), Len(frac)))
        ELSE Exc("ValueError")

\* to_float: the result of value.replace is dropped, so a string `decimal`
\* has no effect; value.replace raises on a `decimal` that is no string
to_float(value, decimal) ==
    IF decimal.t # "str" THEN Exc("TypeError") ELSE float(value)

\* datetime.strptime for the date texts of the model
DATE_FORMAT_DEFAULT == <<"%Y-%m-%d">>

to_date(value, date_format) ==
    IF date_format # DATE_FORMAT_DEFAULT THEN Exc("ValueError")
    ELSE CASE value = <<"2020-01-01">> -> Ret(PyDate(2020, 1, 1))
           [] value = <<"2021-03-05">> -> Ret(PyDate(2021, 3, 5))
           [] OTHER -> Exc("ValueError")

(***************************************************************************)
(* MyTCSV: the tags are an insertion-ordered dict, modelled by a sequence  *)
(* of [k, v] entries.                                                      *)
(***************************************************************************)
TAG_DELIMITER == <<"delimiter">>
TAG_HAS_HEADER == <<"has_header">>
TAG_DECIMAL == <<"decimal_point">>
TAG_QUOTE == <<"quote">>
TAG_DATE_FIELD == <<"date_field">>
TAG_DATE_FORMAT == <<"date_format">>
TAG_DOY_FILE == <<"doy_tif_filepath">>
TAG_DAY_FACTOR == <<"doy_factor">>
TAG_X_FIELD == <<"x_field">>
TAG_Y_FIELD == <<"y_field">>
TAG_PROJ_WKT == <<"projection_wkt">>
TAG_FROM_DT_FIELD == <<"from_date_field">>
TAG_TO_DT_FIELD == <<"to_date_field">>
TAG_CLASS_FIELD == <<"class_field">>
TAG_TIMELINE_FILE == <<"timeline_filepath">>
TAG_BANDS_PATHS == <<"bands_filepaths">>
TAG_BANDS_FACTORS == <<"bands_factors">>

\* tag_name in self.tags
has_tag_name(tgs, tag_name) == \E i \in 1..Len(tgs) : tgs[i].k = tag_name

\* self.tags[tag_name], for a key that is present
TagVal(tgs, tag_name) ==
    tgs[CHOOSE i \in 1..Len(tgs) : tgs[i].k = tag_name].v

\* self.tags[tag_name] = value: in place for a known key, appended otherwise
TagSet(tgs, tag_name, value) ==
    IF has_tag_name(tgs, tag_name)
    THEN [i \in 1..Len(tgs) |->
            IF tgs[i].k = tag_name THEN [k |-> tag_name, v |-> value] ELSE tgs[i]]
    ELSE Append(tgs, [k |-> tag_name, v |-> value])

\* MyTCSV.get_tag_value
get_tag_value(tgs, tag_name, default) ==
    IF has_tag_name(tgs, tag_name) THEN Ret(TagVal(tgs, tag_name))
    ELSE IF Truthy(default) \/ EqualsZero(default) THEN Ret(default)
    ELSE Exc("RequiredTagMissing")

\* list.index(x): the 0-based position of the first element equal to x
index(l, x) ==
    LET hits == { i \in 1..Len(l) : l[i] = x }
    IN  IF hits = {} THEN Exc("ValueError")
        ELSE Ret(PyInt((CHOOSE i \in hits : \A j \in hits : i <= j) - 1))

\* MyTCSV.resolve_field_ref
resolve_field_ref(tgs, names, field_ref) ==
    IF Truthy(TagVal(tgs, TAG_HAS_HEADER))
    THEN IF int(field_ref).err = "none" THEN int(field_ref)
         ELSE index(names, field_ref)
    ELSE int(field_ref)

\* The parser object and the outcome of a method that may raise
Object(f, r, d, n, t) ==
    [file |-> f, row |-> r, data |-> d, field_names |-> n, tags |-> t]

Done(o) == [o |-> o, err |-> "none"]
Raise(o, e) == [o |-> o, err |-> e]

\* MyTCSV.__fetch_tags__: the loop over the lines of the file, from the
\* state the previous iterations left
RECURSIVE fetch_tags_loop(_)
fetch_tags_loop(o) ==
    IF Len(o.file) = 0 THEN Done(o)
    ELSE LET line == strip(Head(o.file))
             o1 == [o EXCEPT !.file = Tail(o.file), !.row = PyStr(line)]
             tag_index == find(line, "=", 1)
         IN  IF Len(line) = 0 THEN Raise(o1, "IndexError")
             ELSE IF line[1] # "#" THEN Done(o1)
             ELSE IF tag_index = -1 THEN fetch_tags_loop(o1)
             ELSE fetch_tags_loop(
                    [o1 EXCEPT !.tags =
                        TagSet(o1.tags, strip(slice(line, 1, tag_index)),
                               PyStr(strip(slice(line, tag_index + 1, Len(line)))))])

fetch_tags(o) == fetch_tags_loop([o EXCEPT !.tags = <<>>])

\* MyTCSV.__transform_tag_value__
MyTCSV_transform_tag_value(tag_name, tag_value) ==
    IF tag_name = TAG_HAS_HEADER
    THEN Ret(PyBool(lower(tag_name) = <<"true">>))
    ELSE Ret(tag_value)

\* the list comprehension of to_float over the cells of a comma-separated
\* tag: the first cell that fails raises
FloatList(cells, decimal) ==
    LET conv == [i \in 1..Len(cells) |-> to_float(strip(cells[i]), decimal)]
        bad == { i \in 1..Len(cells) : conv[i].err # "none" }
    IN  IF bad # {}
        THEN Exc(conv[CHOOSE i \in bad : \A j \in bad : i <= j].err)
        ELSE Ret(PyList([i \in 1..Len(cells) |-> conv[i].ret]))

\* __transform_tag_value__ of the parser's class.  Timeline and Samples hand
\* the tag's value to the base method as its name (lines 333 and 399).
transform_tag_value(kind, o, tag_name, tag_value) ==
    CASE kind = "MyTCSV" -> MyTCSV_transform_tag_value(tag_name, tag_value)
      [] kind = "Timeline" ->
            IF tag_name = TAG_DATE_FIELD
            THEN resolve_field_ref(o.tags, o.field_names, tag_value.s)
            ELSE IF tag_name = TAG_DAY_FACTOR
            THEN to_float(tag_value.s, TagVal(o.tags, TAG_DECIMAL))
            ELSE MyTCSV_transform_tag_value(tag_value.s, tag_value)
      [] kind = "Samples" ->
            IF tag_name \in {TAG_X_FIELD, TAG_Y_FIELD, TAG_CLASS_FIELD,
                             TAG_FROM_DT_FIELD, TAG_TO_DT_FIELD}
            THEN resolve_field_ref(o.tags, o.field_names, tag_value.s)
            ELSE IF tag_name = TAG_BANDS_PATHS
            THEN LET cells == split(strip(TagVal(o.tags, TAG_BANDS_PATHS).s), <<",">>)
                 IN  Ret(PyList([i \in 1..Len(cells) |-> PyStr(strip(cells[i]))]))
            ELSE IF tag_name = TAG_BANDS_FACTORS
            THEN FloatList(split(strip(TagVal(o.tags, TAG_BANDS_FACTORS).s), <<",">>),
                           TagVal(o.tags, TAG_DECIMAL))
            ELSE MyTCSV_transform_tag_value(tag_value.s, tag_value)

\* the loop of __prepare_data_fetch__ over self.tags.items(), from entry i
\* on; store_tag is the assignment self.tags[key] = <transformed value>
RECURSIVE transform_tags(_, _, _)
RECURSIVE store_tag(_, _, _, _)
transform_tags(kind, o, i) ==
    IF i > Len(o.tags) THEN Done(o)
    ELSE store_tag(kind, o, i,
                   transform_tag_value(kind, o, o.tags[i].k, o.tags[i].v))

store_tag(kind, o, i, r) ==
    IF r.err # "none" THEN Raise(o, r.err)
    ELSE transform_tags(kind, [o EXCEPT !.tags[i].v = r.ret], i + 1)

\* the header of __prepare_data_fetch__ (lines 213-219): the cells of the
\* pending row become the field names and the next line the pending row
read_header(o, cells, quote) ==
    [o EXCEPT !.field_names =
                  o.field_names
                  \o [i \in 1..Len(cells) |->
                        strip_chars(strip(cells[i]), Symbols(quote.s))],
              !.row = IF Len(o.file) > 0 THEN PyStr(Head(o.file)) ELSE PyStr(<<>>),
              !.file = IF Len(o.file) > 0 THEN Tail(o.file) ELSE <<>>]

\* MyTCSV.__prepare_data_fetch__
prepare_data_fetch(kind, o) ==
    IF o.row.t = "none" THEN Raise(o, "AttributeError")
    ELSE IF Len(TagVal(o.tags, TAG_DELIMITER).s) = 0 THEN Raise(o, "ValueError")
    ELSE IF lower(TagVal(o.tags, TAG_HAS_HEADER).s) = <<"true">>
    THEN transform_tags(kind,
            read_header(o, split(o.row.s, TagVal(o.tags, TAG_DELIMITER).s),
                        TagVal(o.tags, TAG_QUOTE)),
            1)
    ELSE transform_tags(kind, o, 1)

\* MyTCSV.__transform_row_data__: every cell stripped and un-quoted
MyTCSV_transform_row_data(o, fields) ==
    [i \in 1..Len(fields) |->
        PyStr(strip_chars(strip(fields[i]), Symbols(TagVal(o.tags, TAG_QUOTE).s)))]

\* to_float or to_date on one cell of the row
ConvertCell(o, cell, as_date) ==
    IF cell.t # "str" THEN Exc("TypeError")
    ELSE IF as_date THEN to_date(cell.s, TagVal(o.tags, TAG_DATE_FORMAT).s)
    ELSE to_float(cell.s, TagVal(o.tags, TAG_DECIMAL))

\* result[f] = v
StoreCell(fields, f, v) ==
    IF v.err # "none" THEN v
    ELSE [ret |-> [fields EXCEPT ![f + 1] = v.ret], err |-> "none"]

\* result[self.tags[tag]] = to_float / to_date (fields[self.tags[tag]], ...)
ConvertField(r, o, tag_name, as_date) ==
    IF r.err # "none" THEN r
    ELSE IF ~has_tag_name(o.tags, tag_name) THEN Exc("KeyError")
    ELSE IF TagVal(o.tags, tag_name).n >= Len(r.ret) THEN Exc("IndexError")
    ELSE StoreCell(r.ret, TagVal(o.tags, tag_name).n,
                   ConvertCell(o, r.ret[TagVal(o.tags, tag_name).n + 1], as_date))

\* __transform_row_data__ of the parser's class
transform_row_data(kind, o, fields) ==
    LET base == [ret |-> MyTCSV_transform_row_data(o, fields), err |-> "none"]
    IN  CASE kind = "MyTCSV" -> base
          [] kind = "Timeline" -> ConvertField(base, o, TAG_DATE_FIELD, TRUE)
          [] kind = "Samples" ->
                ConvertField(
                  ConvertField(
                    ConvertField(
                      ConvertField(base, o, TAG_X_FIELD, FALSE),
                      o, TAG_Y_FIELD, FALSE),
                    o, TAG_FROM_DT_FIELD, TRUE),
                  o, TAG_TO_DT_FIELD, TRUE)

\* the storing loops of __process_row_data__ (lines 229-234) on the
\* transformed row r; the columns appended before an IndexError stay appended
store_row(o, r) ==
    IF r.err # "none" THEN Raise(o, r.err)
    ELSE IF Len(o.data) > 0
    THEN IF Len(r.ret) > Len(o.data)
         THEN Raise([o EXCEPT !.data =
                        [i \in 1..Len(o.data) |-> Append(o.data[i], r.ret[i])]],
                    "IndexError")
         ELSE Done([o EXCEPT !.data =
                        [i \in 1..Len(o.data) |->
                            IF i <= Len(r.ret) THEN Append(o.data[i], r.ret[i])
                            ELSE o.data[i]]])
    ELSE Done([o EXCEPT !.data = [i \in 1..Len(r.ret) |-> <<r.ret[i]>>]])

\* MyTCSV.__process_row_data__
process_row_data(kind, o) ==
    IF TagVal(o.tags, TAG_DELIMITER).t # "str" THEN Raise(o, "TypeError")
    ELSE store_row(o, transform_row_data(kind, o,
                        split(o.row.s, TagVal(o.tags, TAG_DELIMITER).s)))

\* the loop of fetch_data over the remaining lines of the file (lines
\* 242-244); next_row goes on after the row that r is the outcome of
RECURSIVE fetch_rows(_, _)
RECURSIVE next_row(_, _)
fetch_rows(kind, o) ==
    IF Len(o.file) = 0 THEN Done(o)
    ELSE next_row(kind,
            process_row_data(kind,
                [o EXCEPT !.file = Tail(o.file),
                          !.row = PyStr(strip(Head(o.file)))]))

next_row(kind, r) == IF r.err # "none" THEN r ELSE fetch_rows(kind, r.o)

\* MyTCSV.fetch_data
fetch_data(kind, o) == next_row(kind, process_row_data(kind, o))

\* self.tags[tag_name] = g, the outcome of a get_tag_value call
StoreDefault(o, tag_name, g) ==
    IF g.err # "none" THEN Raise(o, g.err)
    ELSE Done([o EXCEPT !.tags = TagSet(o.tags, tag_name, g.ret)])

\* self.tags[tag_name] = self.get_tag_value(tag_name, default)
SetDefault(r, tag_name, default) ==
    IF r.err # "none" THEN r
    ELSE StoreDefault(r.o, tag_name, get_tag_value(r.o.tags, tag_name, default))

\* MyTCSV.__init__ on the lines of an opened file
MyTCSV_prepare(kind, r) ==
    IF r.err # "none" THEN r ELSE prepare_data_fetch(kind, r.o)

MyTCSV_init(kind, lines, delimiter, has_header, decimal, quote) ==
    MyTCSV_prepare(kind,
        SetDefault(
          SetDefault(
            SetDefault(
              SetDefault(fetch_tags(Object(lines, PyNone, <<>>, <<>>, <<>>)),
                         TAG_DELIMITER, delimiter),
              TAG_HAS_HEADER, has_header),
            TAG_DECIMAL, decimal),
          TAG_QUOTE, quote))

\* Mygdal.__init__ as far as the parsers see it: gdal.Open gives no dataset
\* for a file it cannot open, and the constructor raises MissingFile
Mygdal(env, filename) ==
    IF filename \in env.openable
    THEN Ret([filename |-> filename, dataset |-> "open"])
    ELSE Exc("MissingFile")

\* the outcome of a constructor: the parser and the objects it owns
Built(r, e, doy, tl, bs, fs) ==
    [o |-> r.o, err |-> e, doy_stack |-> doy, timeline |-> tl,
     bands |-> bs, bands_factor |-> fs]

DefaultArgs(kind, lines) ==
    MyTCSV_init(kind, lines, PyStr(<<",">>), PyStr(<<"False">>),
                PyStr(<<".">>), PyStr(<<"\"">>))

\* Timeline.__init__, line 326: self.doy_stack = Mygdal(...)
Timeline_open(r, env) ==
    LET path == TagVal(r.o.tags, TAG_DOY_FILE)
        doy == Mygdal(env, path.s)
    IN  IF r.err # "none" THEN Built(r, r.err, PyNone, PyNone, <<>>, <<>>)
        ELSE IF path.t # "str" THEN Built(r, "TypeError", PyNone, PyNone, <<>>, <<>>)
        ELSE IF doy.err # "none" THEN Built(r, doy.err, PyNone, PyNone, <<>>, <<>>)
        ELSE Built(r, "none", doy.ret, PyNone, <<>>, <<>>)

\* Timeline.__init__
Timeline_init(lines, env) ==
    Timeline_open(
        SetDefault(
          SetDefault(
            SetDefault(DefaultArgs("Timeline", lines),
                       TAG_DATE_FORMAT, PyStr(DATE_FORMAT_DEFAULT)),
            TAG_DOY_FILE, PyStr(<<"doy.tif">>)),
          TAG_DAY_FACTOR, PyFloat(1, 0)),
        env)

\* the values a `for value in v` loop visits: the elements of a list, the
\* symbols of a string
Iterate(v) ==
    IF v.t = "list" THEN v.l ELSE [i \in 1..Len(v.s) |-> PyStr(<<v.s[i]>>)]

\* a constructor that accepts band and factor lists of any lengths
check_bands_unchecked(r, tl, bs, fs) == Built(r, "none", PyNone, tl, bs, fs)

\* Samples.__init__, lines 380-381: the band list and the factor list must
\* have the same length
check_bands(r, tl, bs, fs) ==
    IF Len(bs) # Len(fs)
    THEN Built(r, "BandsTagsError", PyNone, tl, bs, fs)
    ELSE Built(r, "none", PyNone, tl, bs, fs)

\* Samples.__init__, lines 377-381.  The Timeline it builds on its own file
\* is seen from outside: it is built, or its file cannot be opened.
Samples_open(r, env) ==
    LET tl == [fetches |-> 0]
        paths == Iterate(TagVal(r.o.tags, TAG_BANDS_PATHS))
        opened == [i \in 1..Len(paths) |-> Mygdal(env, paths[i].s)]
        bs == [i \in 1..Len(paths) |-> opened[i].ret]
        fs == TagVal(r.o.tags, TAG_BANDS_FACTORS).l
    IN  IF r.err # "none" THEN Built(r, r.err, PyNone, PyNone, <<>>, <<>>)
        ELSE IF ~env.timeline_ok
        THEN Built(r, "FileNotFoundError", PyNone, PyNone, <<>>, <<>>)
        ELSE IF TagVal(r.o.tags, TAG_BANDS_PATHS).t \notin {"list", "str"}
        THEN Built(r, "TypeError", PyNone, tl, <<>>, <<>>)
        ELSE IF \E i \in 1..Len(paths) : opened[i].err # "none"
        THEN Built(r, "MissingFile", PyNone, tl, <<>>, <<>>)
        ELSE IF ~has_tag_name(r.o.tags, TAG_BANDS_FACTORS)
        THEN Built(r, "KeyError", PyNone, tl, bs, <<>>)
        ELSE check_bands(r, tl, bs, fs)

\* Samples.__init__
Samples_init(lines, env) ==
    Samples_open(
        SetDefault(
          SetDefault(
            SetDefault(DefaultArgs("Samples", lines),
                       TAG_DATE_FORMAT, PyStr(DATE_FORMAT_DEFAULT)),
            TAG_TIMELINE_FILE, PyStr(<<"timeline.csv">>)),
          TAG_BANDS_PATHS, PyStr(<<"ndvi.tif", ",", "evi.tif">>)),
        env)

MyTCSV_built(r) == Built(r, r.err, PyNone, PyNone, <<>>, <<>>)

\* the constructor of the class named `kind`
Construct_kind(kind, lines, has_header, env) ==
    CASE kind = "MyTCSV" ->
            MyTCSV_built(MyTCSV_init(kind, lines, PyStr(<<",">>), has_header,
                                     PyStr(<<".">>), PyStr(<<"\"">>)))
      [] kind = "Timeline" -> Timeline_init(lines, env)
      [] kind = "Samples" -> Samples_init(lines, env)

(***************************************************************************)
(* Inputs of the parser specification: table files made of a block of tag  *)
(* lines and at most MaxLines further lines                                *)
(***************************************************************************)
Line(s) == s \o <<"\n">>

TagLine(name, value) == Line(<<"#">> \o name \o <<"=">> \o value)

Seqs(S, n) == UNION { [1..m -> S] : m \in 0..n }

\* lines of a plain table: header or data cells, quoted and padded cells,
\* a short row and an empty line
PlainLines ==
    { Line(<<"a", ",", "b", ",", "c">>),
      Line(<<"1", ",", "2", ",", "3">>),
      Line(<<" ", "\"", "x", "\"", " ", ",", "y", " ", ",", "\"", "4", "\"">>),
      Line(<<"5", ",", "6">>),
      Line(<<>>) }

PlainTagBlocks ==
    { <<>>,
      <<TagLine(TAG_HAS_HEADER, <<"True">>)>>,
      <<Line(<<"#", "note">>), TagLine(<<" ", "delimiter", " ">>, <<" ", ";">>)>> }

PlainInputs ==
    { [kind |-> "MyTCSV", lines |-> b \o body, has_header |-> PyStr(<<h>>),
       openable |-> {}, timeline_ok |-> FALSE] :
        b \in PlainTagBlocks, body \in Seqs(PlainLines, MaxLines),
        h \in {"False", "true"} }

\* a tag line, or no line when the tag is left out
Opt(present, name, value) == IF present THEN <<TagLine(name, value)>> ELSE <<>>

TimelineLines ==
    { Line(<<"d", ",", "n">>),
      Line(<<"2020-01-01", ",", "u">>),
      Line(<<" ", "2021-03-05", " ", ",", "v">>),
      Line(<<"n/a", ",", "w">>) }

TimelineTagBlocks ==
    { Opt(hh, TAG_HAS_HEADER, <<"true">>)
        \o Opt(df # "", TAG_DATE_FIELD, <<df>>)
        \o Opt(fac, TAG_DAY_FACTOR, <<"2", ".", "0">>) :
        hh \in BOOLEAN, df \in {"", "0", "d"}, fac \in BOOLEAN }

TimelineInputs ==
    { [kind |-> "Timeline", lines |-> b \o body, has_header |-> PyStr(<<"False">>),
       openable |-> op, timeline_ok |-> FALSE] :
        b \in TimelineTagBlocks, body \in Seqs(TimelineLines, MaxLines),
        op \in { {<<"doy.tif">>}, {} } }

SamplesLines ==
    { Line(<<"x", ",", "y", ",", "f", ",", "t">>),
      Line(<<"1", ".", "5", ",", "2", ",", "2020-01-01", ",", "2021-03-05">>) }

\* the tag block of a samples file: field references by index or by name,
\* one of the tags left out, band paths and band factors of either length
SamplesTagBlock(named, drop, paths, factors) ==
    Opt(named, TAG_HAS_HEADER, <<"true">>)
    \o Opt(drop # "x", TAG_X_FIELD, IF named THEN <<"x">> ELSE <<"0">>)
    \o Opt(drop # "y", TAG_Y_FIELD, IF named THEN <<"y">> ELSE <<"1">>)
    \o Opt(drop # "from", TAG_FROM_DT_FIELD, IF named THEN <<"f">> ELSE <<"2">>)
    \o Opt(drop # "to", TAG_TO_DT_FIELD, IF named THEN <<"t">> ELSE <<"3">>)
    \o Opt(drop # "paths", TAG_BANDS_PATHS, paths)
    \o Opt(drop # "factors", TAG_BANDS_FACTORS, factors)

BandPathTexts == { <<"a.tif">>, <<"a.tif", ",", " ", "b.tif">> }
BandFactorTexts == { <<"1", ".", "0">>, <<"1", ".", "0", ",", "2", ".", "5">> }

SamplesInputs ==
    { [kind |-> "Samples",
       lines |-> SamplesTagBlock(named, drop, paths, factors) \o body,
       has_header |-> PyStr(<<"False">>),
       openable |-> op, timeline_ok |-> tl] :
        named \in BOOLEAN,
        drop \in {"", "x", "y", "from", "to", "paths", "factors"},
        paths \in BandPathTexts, factors \in BandFactorTexts,
        body \in Seqs(SamplesLines, MaxLines),
        op \in { {<<"a.tif">>, <<"b.tif">>}, {<<"a.tif">>} },
        tl \in BOOLEAN }

NoInput ==
    [kind |-> "none", lines |-> <<>>, has_header |-> PyNone,
     openable |-> {}, timeline_ok |-> FALSE]

NoQuery == [op |-> "none", arg |-> <<>>, ret |-> PyNone, err |-> "none"]

\* the parser before its constructor has run
Unbuilt ==
    /\ phase = "new"
    /\ err = "none"
    /\ file = <<>>
    /\ row = PyNone
    /\ data = <<>>
    /\ field_names = <<>>
    /\ tags = <<>>
    /\ doy_stack = PyNone
    /\ timeline = PyNone
    /\ bands = <<>>
    /\ bands_factor = <<>>
    /\ nfetch = 0
    /\ tcall = NoQuery

\* no parser at all: the state of the parser's variables in the
\* specifications of the other classes
TIdle == input = NoInput /\ Unbuilt

GIdle == ds = PyNone /\ gcall = [op |-> "none", arg |-> <<>>, ret |-> <<>>]

\* no time-series object
SIdle == tline = PyNone /\ samples = PyNone /\ scall = NoQuery

\* no random sampling
RIdle == rng = 0 /\ rcalls = <<>>

\* no extractor whose resources are followed
CIdle == owner = PyNone

TInit ==
    /\ input \in PlainInputs \cup TimelineInputs \cup SamplesInputs
    /\ Unbuilt
    /\ GIdle
    /\ SIdle
    /\ RIdle
    /\ CIdle

this == Object(file, row, data, field_names, tags)

\* the fields of the parser after the method whose outcome is r
Fields(r) ==
    /\ err' = r.err
    /\ file' = r.o.file
    /\ row' = r.o.row
    /\ data' = r.o.data
    /\ field_names' = r.o.field_names
    /\ tags' = r.o.tags

\* the objects the constructor whose outcome is r has built
Owned(r) ==
    /\ phase' = IF r.err = "none" THEN "ready" ELSE "failed"
    /\ doy_stack' = r.doy_stack
    /\ timeline' = r.timeline
    /\ bands' = r.bands
    /\ bands_factor' = r.bands_factor

Constructed(r) == Fields(r) /\ Owned(r)

\* the constructor of input.kind on the file input.lines
Construct ==
    /\ phase = "new"
    /\ Constructed(Construct_kind(input.kind, input.lines, input.has_header, input))
    /\ UNCHANGED <<input, nfetch, tcall, geovars, svars, rvars, cvars>>

\* fetch_data; Samples.fetch_data first has its timeline fetch its own data
FetchData ==
    /\ phase = "ready"
    /\ tcall.op = "none"
    /\ nfetch < MaxFetch
    /\ Fields(fetch_data(input.kind, this))
    /\ timeline' = IF input.kind = "Samples"
                   THEN [timeline EXCEPT !.fetches = @ + 1] ELSE timeline
    /\ nfetch' = nfetch + 1
    /\ UNCHANGED <<input, phase, doy_stack, bands, bands_factor, tcall, geovars, svars, rvars, cvars>>

FieldRefs == { <<"1">>, <<" ", "0">>, <<"b">>, <<"d">>, <<"x">>, <<"zz">> }

\* a call of resolve_field_ref on the constructed parser
ResolveFieldRef ==
    /\ phase = "ready"
    /\ tcall.op = "none"
    /\ \E field_ref \in FieldRefs :
         LET r == resolve_field_ref(tags, field_names, field_ref)
         IN  tcall' = [op |-> "resolve_field_ref", arg |-> <<field_ref>>,
                       ret |-> r.ret, err |-> r.err]
    /\ UNCHANGED <<input, phase, err, file, row, data, field_names, tags,
                   doy_stack, timeline, bands, bands_factor, nfetch, geovars, svars, rvars, cvars>>

QueryTags == { TAG_QUOTE, TAG_DATE_FIELD, TAG_BANDS_FACTORS, TAG_CLASS_FIELD }
QueryDefaults ==
    { PyNone, PyStr(<<>>), PyStr(<<"k">>), PyInt(0), PyInt(2), PyBool(FALSE) }

\* a call of get_tag_value on the constructed parser
GetTagValue ==
    /\ phase = "ready"
    /\ tcall.op = "none"
    /\ \E tag_name \in QueryTags, default \in QueryDefaults :
         LET r == get_tag_value(tags, tag_name, default)
         IN  tcall' = [op |-> "get_tag_value", arg |-> <<tag_name, default>>,
                       ret |-> r.ret, err |-> r.err]
    /\ UNCHANGED <<input, phase, err, file, row, data, field_names, tags,
                   doy_stack, timeline, bands, bands_factor, nfetch, geovars, svars, rvars, cvars>>

TNext ==
    \/ Construct
    \/ FetchData
    \/ ResolveFieldRef
    \/ GetTagValue

SpecTCSV == TInit /\ [][TNext]_vars

(***************************************************************************)
(* Inputs of the Mygdal specification                                      *)
(***************************************************************************)
ResValues == { r \in -MaxRes..MaxRes : r # 0 }
SkewValues == -MaxSkew..MaxSkew
Origins == { <<0, 0>>, <<3, -2>> }
PixelRange == -1..(MaxSize + 1)
PixelPoints == { <<x, y>> : x \in PixelRange, y \in PixelRange }
GeoRange == { -3, 0, 1, 4 }
GeoPoints == { <<x, y>> : x \in GeoRange, y \in GeoRange }

PointArrays(S) == UNION { [1..n -> S] : n \in 1..MaxPoints }

NoCall == [op |-> "none", arg |-> <<>>, ret |-> <<>>]

\* The methods of Mygdal are pure: each behaviour constructs one raster and
\* makes one call on it (geolocs_to_pixels follows a pixels_to_geolocs).

GeoInit ==
    /\ \E w \in 1..MaxSize, h \in 1..MaxSize, ul \in Origins :
       \E rx \in ResValues, ry \in ResValues, sx \in SkewValues, sy \in SkewValues :
            ds = MygdalInit(w, h, ul, ord_pair(rx, ry), ord_pair(sx, sy))
    /\ gcall = NoCall
    /\ TIdle
    /\ SIdle
    /\ RIdle
    /\ CIdle

\* a call of pixels_to_geolocs on one or more pixels
PixelsToGeolocs ==
    /\ gcall.op = "none"
    /\ \E pixels \in PointArrays(PixelPoints) :
            gcall' = [op |-> "pixels_to_geolocs", arg |-> pixels,
                      ret |-> pixels_to_geolocs(ds, pixels)]
    /\ UNCHANGED <<ds, tvars, svars, rvars, cvars>>

\* a call of geolocs_to_pixels on the geolocations the last
\* pixels_to_geolocs call returned; arg keeps the original pixels
GeolocsToPixels ==
    /\ gcall.op = "pixels_to_geolocs"
    /\ gcall' = [op |-> "geolocs_to_pixels", arg |-> gcall.arg,
                 ret |-> geolocs_to_pixels(ds, gcall.ret)]
    /\ UNCHANGED <<ds, tvars, svars, rvars, cvars>>

AreValidPixels ==
    /\ gcall.op = "none"
    /\ \E pixels \in PointArrays(PixelPoints) :
            gcall' = [op |-> "are_valid_pixels", arg |-> pixels,
                      ret |-> are_valid_pixels(ds, pixels)]
    /\ UNCHANGED <<ds, tvars, svars, rvars, cvars>>

AreValidGeolocs ==
    /\ gcall.op = "none"
    /\ \E geolocs \in PointArrays(GeoPoints) :
            gcall' = [op |-> "are_valid_geolocs", arg |-> geolocs,
                      ret |-> are_valid_geolocs(ds, geolocs)]
    /\ UNCHANGED <<ds, tvars, svars, rvars, cvars>>

GeoNext ==
    \/ PixelsToGeolocs
    \/ GeolocsToPixels
    \/ AreValidPixels
    \/ AreValidGeolocs

SpecGeo == GeoInit /\ [][GeoNext]_vars

(***************************************************************************)
(* Dates: datetime.datetime and datetime.timedelta on the proleptic        *)
(* Gregorian calendar, as the datetime module computes them                *)
(***************************************************************************)
IsLeap(y) == y % 4 = 0 /\ (y % 100 # 0 \/ y % 400 = 0)

DaysInMonth(y, m) ==
    IF m = 2 THEN (IF IsLeap(y) THEN 29 ELSE 28)
    ELSE IF m \in {4, 6, 9, 11} THEN 30 ELSE 31

\* the days before January 1st of year y
DaysBeforeYear(y) ==
    365 * (y - 1) + ((y - 1) \div 4) - ((y - 1) \div 100) + ((y - 1) \div 400)

\* the days of year y before the first day of month m
RECURSIVE DaysBeforeMonth(_, _)
DaysBeforeMonth(y, m) ==
    IF m = 1 THEN 0 ELSE DaysBeforeMonth(y, m - 1) + DaysInMonth(y, m - 1)

\* date.toordinal()
toordinal(d) == DaysBeforeYear(d.y) + DaysBeforeMonth(d.y, d.m) + d.d

\* the years the dates of the model fall in
Years == 2018..2023

\* the date that is day n of year y, n in 1..366
DayOfYear(y, n) ==
    LET m == CHOOSE k \in 1..12 :
                DaysBeforeMonth(y, k) < n
                /\ n <= DaysBeforeMonth(y, k) + DaysInMonth(y, k)
    IN  PyDate(y, m, n - DaysBeforeMonth(y, m))

\* the year that holds the day of ordinal n
YearOf(n) ==
    CHOOSE y \in Years : DaysBeforeYear(y) < n /\ n <= DaysBeforeYear(y + 1)

\* date.fromordinal(n)
fromordinal(n) == DayOfYear(YearOf(n), n - DaysBeforeYear(YearOf(n)))

\* d + datetime.timedelta(days = k)
AddDays(d, k) == fromordinal(toordinal(d) + k)

\* d1 <= d2 on datetimes
DateLe(d1, d2) == toordinal(d1) <= toordinal(d2)

(***************************************************************************)
(* Raster stacks read pixel by pixel.  A stack is a Mygdal object with,    *)
(* beside its geo-referencing fields, the no-data value of each band and   *)
(* the values the dataset holds: pix[x + 1][b] is band b at pixel (x, 0).  *)
(* Band values are integers; a float is the mantissa m scaled by 10^-e.    *)
(***************************************************************************)
\* a north-up stack of one row of pixels, of resolution 1 and origin (0, 0)
Stack(values_nodata, pix) ==
    MygdalInit(Len(pix), 1, ord_pair(0, 0), ord_pair(1, 1), ord_pair(0, 0))
    @@ [values_nodata |-> values_nodata, pix |-> pix, srs_wkt |-> <<"wkt">>]

\* Mygdal.read_pixel_values at a pixel of the raster
read_pixel_values(self, pixel) == self.pix[pixel[1] + 1]

\* Mygdal.mask_nodata_pixel_bands
mask_nodata_pixel_bands(self, pixel_bands) ==
    [i \in 1..Len(pixel_bands) |-> pixel_bands[i] # self.values_nodata[i]]

\* Mygdal.reproject_geolocs_from: geolocations of the raster's own
\* reference system are returned as they are (lines 161-162); the osr
\* transformation of any other system is not part of the model, and no
\* state hands it one
reproject_geolocs_from(self, geolocs, geo_srs_wkt_from) ==
    IF self.srs_wkt = geo_srs_wkt_from THEN Ret(geolocs)
    ELSE Exc("osr")

(***************************************************************************)
(* Timeline on fetched data: data is the list of columns, empty before     *)
(* fetch_data; doy_factor is a float holding a whole number                *)
(***************************************************************************)
\* the comprehension of lines 351-353
resolve_dates(self, doys, mask_nodata, dates) ==
    [i \in 1..Len(dates) |->
        IF mask_nodata[i]
        THEN AddDays(PyDate(dates[i].y, 1, 1), doys[i] * self.doy_factor.m)
        ELSE dates[i]]

\* lines 347-353 with the other length failure raised
read_pixel_dates_stacks(self, doys) ==
    IF self.date_field >= Len(self.data) THEN Exc("IndexError")
    ELSE IF Len(doys) # Len(self.data[self.date_field + 1])
    THEN Exc("DiffStacksLength")
    ELSE Ret(PyList(resolve_dates(self, doys,
                        mask_nodata_pixel_bands(self.doy_stack, doys),
                        self.data[self.date_field + 1])))

\* lines 347-353 of Timeline.read_pixel_dates, on the doys read at the pixel
read_pixel_dates_of(self, doys) ==
    IF self.date_field >= Len(self.data) THEN Exc("IndexError")
    ELSE IF Len(doys) # Len(self.data[self.date_field + 1])
    THEN Exc("WrongTimeLineLength")
    ELSE Ret(PyList(resolve_dates(self, doys,
                        mask_nodata_pixel_bands(self.doy_stack, doys),
                        self.data[self.date_field + 1])))

\* Timeline.read_pixel_dates
read_pixel_dates(self, pixel) ==
    read_pixel_dates_of(self, read_pixel_values(self.doy_stack, pixel))

(***************************************************************************)
(* Samples on fetched data                                                 *)
(***************************************************************************)
\* the rows read_samples_geolocs visits: all of them, or samples_index
SelectedRows(column, samples_index) ==
    IF samples_index.t = "none" THEN [i \in 1..Len(column) |-> i - 1]
    ELSE samples_index.l

\* Samples.read_samples_geolocs: one (x, y) per selected row
read_samples_geolocs(self, samples_index) ==
    IF self.x_field >= Len(self.data) \/ self.y_field >= Len(self.data)
    THEN Exc("IndexError")
    ELSE IF \E k \in 1..Len(SelectedRows(self.data[self.x_field + 1], samples_index)) :
               SelectedRows(self.data[self.x_field + 1], samples_index)[k]
                    >= Len(self.data[self.x_field + 1])
    THEN Exc("IndexError")
    ELSE Ret([k \in 1..Len(SelectedRows(self.data[self.x_field + 1], samples_index)) |->
                ord_pair(
                  self.data[self.x_field + 1]
                      [SelectedRows(self.data[self.x_field + 1], samples_index)[k] + 1].m,
                  self.data[self.y_field + 1]
                      [SelectedRows(self.data[self.x_field + 1], samples_index)[k] + 1].m)])

\* the call of reproject_geolocs_from once the geolocations are read
reproject_read(self, mygdal_obj, g) ==
    IF g.err # "none" THEN g
    ELSE IF self.projection_wkt.t = "none" THEN Exc("KeyError")
    ELSE reproject_geolocs_from(mygdal_obj, g.ret, self.projection_wkt.s)

\* Samples.reproject_samples_to
reproject_samples_to(self, mygdal_obj, samples_index) ==
    reproject_read(self, mygdal_obj, read_samples_geolocs(self, samples_index))

\* numpy boolean indexing: the elements of s where mask is true
RECURSIVE Compress(_, _)
Compress(s, mask) ==
    IF Len(s) = 0 THEN <<>>
    ELSE (IF Head(mask) THEN <<Head(s)>> ELSE <<>>)
         \o Compress(Tail(s), Tail(mask))

\* pixel_dates != values_nodata, element by element: a datetime never
\* equals a number
DatesNotNodata(pixel_dates, values_nodata) ==
    [t \in 1..Len(pixel_dates) |-> TRUE]

\* lines 449-455: the interval conditions put on the mask
interval_mask(pixel_dates, date_from, date_to, filter_sample_interval) ==
    [t \in 1..Len(pixel_dates) |->
        IF ~filter_sample_interval THEN TRUE
        ELSE IF Truthy(date_from) /\ Truthy(date_to)
        THEN DateLe(date_from, pixel_dates[t]) /\ DateLe(pixel_dates[t], date_to)
        ELSE IF Truthy(date_from) THEN DateLe(date_from, pixel_dates[t])
        ELSE IF Truthy(date_to) THEN DateLe(pixel_dates[t], date_to)
        ELSE TRUE]

\* lines 447-448 and 451: the mask of one band's series
series_mask(self, nodata, pixel_values, pixel_dates, interval) ==
    [t \in 1..Len(pixel_dates) |->
        /\ DatesNotNodata(pixel_dates, self.timeline.doy_stack.values_nodata)[t]
        /\ pixel_values[t] # nodata[t]
        /\ interval[t]]

\* pixel_values[mask] * factor
Scaled(values, factor) ==
    [t \in 1..Len(values) |-> PyFloat(values[t] * factor.m, factor.e)]

\* line 456: the [values, dates] pair of one band
masked_pair(pixel_values, pixel_dates, mask, factor) ==
    <<Scaled(Compress(pixel_values, mask), factor), Compress(pixel_dates, mask)>>

\* lines 445-456: the pairs of all bands at one pixel
pixel_timeseries(self, pixel, pixel_dates, interval) ==
    [j \in 1..Len(self.bands) |->
        masked_pair(read_pixel_values(self.bands[j], pixel), pixel_dates,
                    series_mask(self, self.bands[j].values_nodata,
                                read_pixel_values(self.bands[j], pixel),
                                pixel_dates, interval),
                    self.bands_factor[j])]

\* lines 444-457 for sample i once its dates d are resolved; date_from and
\* date_to are both read from the from-date column (lines 442-443)
sample_dated(self, i, pixel, d, filter_sample_interval) ==
    IF d.err # "none" THEN d
    ELSE Ret(pixel_timeseries(self, pixel, d.ret.l,
                interval_mask(d.ret.l,
                              self.data[self.from_date_field + 1][i],
                              self.data[self.from_date_field + 1][i],
                              filter_sample_interval)))

\* lines 441-457: one turn of the loop over the sample pixels; row i of the
\* table is read whatever samples_index selects
sample_timeseries(self, i, pixel, filter_sample_interval) ==
    IF i > Len(self.data[self.from_date_field + 1]) THEN Exc("IndexError")
    ELSE sample_dated(self, i, pixel,
                      read_pixel_dates(self.timeline, pixel),
                      filter_sample_interval)

\* the outcome of the loop: the first failure, or the list of results
Collect(outs) ==
    IF \E i \in 1..Len(outs) : outs[i].err # "none"
    THEN Exc(outs[CHOOSE i \in 1..Len(outs) :
                    /\ outs[i].err # "none"
                    /\ \A k \in 1..(i - 1) : outs[k].err = "none"].err)
    ELSE Ret(PyList([i \in 1..Len(outs) |-> outs[i].ret]))

\* lines 440-458 on the pixels of the samples
timeseries_of(self, samples_pixels, filter_sample_interval) ==
    Collect([i \in 1..Len(samples_pixels) |->
                sample_timeseries(self, i, samples_pixels[i],
                                  filter_sample_interval)])

\* lines 438-439 once the samples are reprojected
timeseries_at(self, g, filter_sample_interval) ==
    IF g.err # "none" THEN g
    ELSE timeseries_of(self,
                       geolocs_to_pixels(self.timeline.doy_stack, g.ret),
                       filter_sample_interval)

\* Samples.get_samples_timeseries
get_samples_timeseries(self, samples_index, filter_sample_interval) ==
    timeseries_at(self,
                  reproject_samples_to(self, self.timeline.doy_stack, samples_index),
                  filter_sample_interval)

(***************************************************************************)
(* Inputs of the time-series specifications                                *)
(***************************************************************************)
DateValues == { PyDate(2020, 1, 1), PyDate(2021, 3, 5) }
DoyValues == { -1, 45 }
NodataValues == { -1, 45 }
FactorValues == { PyFloat(1, 0), PyFloat(2, 0) }

\* a sequence of n copies of v
Const(n, v) == [i \in 1..n |-> v]

\* a Timeline object: the table holds the date column, or nothing before
\* fetch_data
TimelineObject(columns, doy_factor, stack) ==
    [data |-> columns, date_field |-> 0, doy_factor |-> doy_factor,
     doy_stack |-> stack]

\* the date column of a timeline table of 1..MaxLayers rows, or no column
DateColumns ==
    { <<>> } \cup { <<c>> : c \in UNION { [1..m -> DateValues] : m \in 1..MaxLayers } }

\* timelines over a day-of-year stack of n bands and two pixels; the second
\* pixel reads day 10 in every band
Timelines(n, nodatas, factors, columns) ==
    { TimelineObject(c, f, Stack(nd, <<doys, Const(n, 10)>>)) :
        c \in columns, f \in factors, nd \in nodatas,
        doys \in [1..n -> DoyValues] }

TimelineInit ==
    /\ \E n \in 1..MaxLayers :
          tline \in Timelines(n, [1..n -> NodataValues], FactorValues, DateColumns)
    /\ samples = PyNone
    /\ scall = NoQuery
    /\ GIdle
    /\ TIdle
    /\ RIdle
    /\ CIdle

\* the pixels of a raster of one row
Pixels(self) == { ord_pair(x, 0) : x \in 0..(self.width - 1) }

\* a call of read_pixel_dates
ReadPixelDates ==
    /\ scall.op = "none"
    /\ \E pixel \in Pixels(tline.doy_stack) :
         LET r == read_pixel_dates(tline, pixel)
         IN  scall' = [op |-> "read_pixel_dates", arg |-> <<pixel>>,
                       ret |-> r.ret, err |-> r.err]
    /\ UNCHANGED <<tline, samples, geovars, tvars, rvars, cvars>>

TimelineNext == ReadPixelDates

SpecTimeline == TimelineInit /\ [][TimelineNext]_vars

\* rows of a samples table: x, y, from-date and to-date
SampleRows ==
    { <<PyFloat(0, 0), PyFloat(0, 0), PyDate(2020, 1, 1), PyDate(2021, 3, 5)>>,
      <<PyFloat(0, 0), PyFloat(0, 0), PyDate(2020, 2, 15), PyDate(2021, 3, 5)>>,
      <<PyFloat(1, 0), PyFloat(0, 0), PyDate(2020, 1, 1), PyDate(2020, 2, 15)>>,
      <<PyFloat(1, 0), PyFloat(0, 0), PyDate(2020, 2, 15), PyDate(2020, 2, 15)>> }

\* the four columns of a table of rows
Columns(rows) == [c \in 1..4 |-> [i \in 1..Len(rows) |-> rows[i][c]]]

SampleTables ==
    { Columns(rows) : rows \in UNION { [1..m -> SampleRows] : m \in 1..MaxSamples } }

\* a Samples object: its columns by field, its projection tag, its timeline,
\* its band stacks and their factors
SamplesObject(columns, projection_wkt, tl, bs, fs) ==
    [data |-> columns, x_field |-> 0, y_field |-> 1,
     from_date_field |-> 2, to_date_field |-> 3,
     projection_wkt |-> projection_wkt, timeline |-> tl,
     bands |-> bs, bands_factor |-> fs]

\* the band stacks: no-data is -9; the first band varies at the first pixel
BandStacks(n) ==
    { << Stack(Const(n, -9), <<v, Const(n, 8)>>),
         Stack(Const(n, -9), <<Const(n, 3), Const(n, 4)>>) >> :
        v \in [1..n -> { 7, -9 }] }

\* an extractor after construction (no data) or after fetch_data (the
\* samples table and a timeline table of one row per band)
Extractors(n) ==
    { SamplesObject(IF fetched THEN cols ELSE <<>>, wkt,
                    IF fetched THEN tl ELSE [tl EXCEPT !.data = <<>>],
                    bs, <<PyFloat(2, 0), PyFloat(5, 1)>>) :
        fetched \in BOOLEAN, cols \in SampleTables,
        wkt \in { PyNone, PyStr(<<"wkt">>) },
        tl \in Timelines(n, { Const(n, -1) }, { PyFloat(1, 0) },
                         { <<c>> : c \in [1..n -> DateValues] }),
        bs \in BandStacks(n) }

SeriesInit ==
    /\ \E n \in 1..MaxLayers : samples \in Extractors(n)
    /\ tline = PyNone
    /\ scall = NoQuery
    /\ GIdle
    /\ TIdle
    /\ RIdle
    /\ CIdle

\* samples_index: None, or a list of row numbers
IndexLists ==
    { PyNone }
    \cup { PyList(l) : l \in UNION { [1..m -> 0..(MaxSamples - 1)] : m \in 0..MaxSamples } }

\* a call of read_samples_geolocs
ReadSamplesGeolocs ==
    /\ scall.op = "none"
    /\ \E samples_index \in IndexLists :
         LET r == read_samples_geolocs(samples, samples_index)
         IN  scall' = [op |-> "read_samples_geolocs", arg |-> <<samples_index>>,
                       ret |-> IF r.err = "none" THEN PyList(r.ret) ELSE PyNone,
                       err |-> r.err]
    /\ UNCHANGED <<tline, samples, geovars, tvars, rvars, cvars>>

\* a call of get_samples_timeseries
GetSamplesTimeseries ==
    /\ scall.op = "none"
    /\ \E samples_index \in IndexLists, filter_sample_interval \in BOOLEAN :
         LET r == get_samples_timeseries(samples, samples_index,
                                         filter_sample_interval)
         IN  scall' = [op |-> "get_samples_timeseries",
                       arg |-> <<samples_index, filter_sample_interval>>,
                       ret |-> r.ret, err |-> r.err]
    /\ UNCHANGED <<tline, samples, geovars, tvars, rvars, cvars>>

SeriesNext ==
    \/ ReadSamplesGeolocs
    \/ GetSamplesTimeseries

SpecSeries == SeriesInit /\ [][SeriesNext]_vars

(***************************************************************************)
(* C1.  Round trip: for every pixel p within the raster,                   *)
(* geolocs_to_pixels(pixels_to_geolocs(p)) = p, for any resolution and     *)
(* any skew, zero or not.                                                  *)
(***************************************************************************)
InRaster(self, p) ==
    /\ 0 <= p[1] /\ p[1] <= self.width - 1
    /\ 0 <= p[2] /\ p[2] <= self.height - 1

C1_RoundTrip ==
    (gcall.op = "geolocs_to_pixels"
        /\ \A i \in 1..Len(gcall.arg) : InRaster(ds, gcall.arg[i]))
    => gcall.ret = gcall.arg

(***************************************************************************)
(* C2.  The bounds checks are "any out of bounds" predicates: the call     *)
(* returns true exactly when some point of the array lies outside the      *)
(* pixel extent (are_valid_pixels) or outside the sign-adjusted bounding   *)
(* box (are_valid_geolocs).                                                *)
(***************************************************************************)
OutsideBox(self, g) ==
    \E a \in 1..2 :
        LET s == Sign(self.geo_resolution[a])
        IN  g[a] * s < self.geo_ul[a] * s \/ g[a] * s > self.geo_lr[a] * s

C2_AnyOutOfBounds ==
    /\ gcall.op = "are_valid_pixels" =>
         (gcall.ret <=> \E i \in 1..Len(gcall.arg) : ~InRaster(ds, gcall.arg[i]))
    /\ gcall.op = "are_valid_geolocs" =>
         (gcall.ret <=> \E i \in 1..Len(gcall.arg) : OutsideBox(ds, gcall.arg[i]))

(***************************************************************************)
(* The table file as the claims describe it                                *)
(***************************************************************************)
\* a line of the tag block: its stripped text starts with '#'
IsTagLine(l) == Len(strip(l)) > 0 /\ strip(l)[1] = "#"

\* the stripped, un-quoted cells of a comma-separated line
Cells(l) ==
    LET cs == split(strip(l), <<",">>)
    IN  [i \in 1..Len(cs) |-> strip_chars(strip(cs[i]), {"\""})]

\* position of the first line after the tag block
FirstTableLine ==
    CHOOSE i \in 1..(Len(input.lines) + 1) :
        /\ \A j \in 1..(i - 1) : IsTagLine(input.lines[j])
        /\ i <= Len(input.lines) => ~IsTagLine(input.lines[i])

\* the table was read with a header
HeaderRead == Len(field_names) > 0

\* number of data lines of the file: the lines after the tag block, less
\* the header line
NumDataLines ==
    LET table == Len(input.lines) + 1 - FirstTableLine
    IN  IF HeaderRead /\ table > 0 THEN table - 1 ELSE table

\* the file declares the tag `name`
Declares(name) ==
    \E i \in 1..Len(input.lines) :
        LET l == strip(input.lines[i])
        IN  /\ IsTagLine(l)
            /\ find(l, "=", 1) # -1
            /\ strip(slice(l, 1, find(l, "=", 1))) = name

\* C4: resolve_field_ref(ref) returns int(ref) whenever ref is the text of
\* an integer; on a table read with a header it returns the position of ref
\* among the field names; on a table without header it fails for a ref that
\* is not the text of an integer.
C4_ResolveFieldRef ==
    tcall.op = "resolve_field_ref" =>
        LET ref == tcall.arg[1]
        IN  /\ IsInt(ref) =>
                /\ tcall.err = "none"
                /\ tcall.ret = PyInt(DigitsVal(strip(ref)))
            /\ (~IsInt(ref) /\ HeaderRead
                    /\ \E i \in 1..Len(field_names) : field_names[i] = ref) =>
                /\ tcall.err = "none"
                /\ \E i \in 1..Len(field_names) :
                      /\ field_names[i] = ref
                      /\ \A j \in 1..(i - 1) : field_names[j] # ref
                      /\ tcall.ret = PyInt(i - 1)
            /\ (~IsInt(ref) /\ ~HeaderRead) => tcall.err # "none"

\* the lines of a plain table all have k >= 1 non-empty-line cells
Rectangular(lines) ==
    \A i \in 1..Len(lines) :
        /\ Len(strip(lines[i])) > 0
        /\ Len(Cells(lines[i])) = Len(Cells(lines[1]))

\* C9: a file without tag lines, read with has_header true, made of a header
\* of k cells and N >= 0 data lines of k cells each, gives after construction
\* and one fetch_data call the k header cells as field_names and k columns of
\* exactly N rows holding the cells of the data lines in file order.
C9_HeaderPlusRows ==
    ( /\ input.kind = "MyTCSV"
      /\ input.has_header = PyStr(<<"true">>)
      /\ Len(input.lines) >= 1
      /\ \A i \in 1..Len(input.lines) : ~IsTagLine(input.lines[i])
      /\ Rectangular(input.lines)
      /\ (phase = "failed" \/ nfetch = 1) )
    => /\ phase = "ready"
       /\ err = "none"
       /\ field_names = Cells(input.lines[1])
       /\ Len(data) = Len(Cells(input.lines[1]))
       /\ \A c \in 1..Len(data) :
            /\ Len(data[c]) = Len(input.lines) - 1
            /\ \A n \in 1..Len(data[c]) :
                  data[c][n] = PyStr(Cells(input.lines[n + 1])[c])

\* C10: after the parser is constructed on any file and fetch_data has been
\* called any number of times, all columns have the same length, the number
\* of rows is the number of data lines of the file, and field_names, when
\* non-empty, has one entry per column.
C10_ColumnInvariant ==
    (phase = "ready" /\ nfetch >= 1 /\ err = "none") =>
        /\ \A i, j \in 1..Len(data) : Len(data[i]) = Len(data[j])
        /\ \A i \in 1..Len(data) : Len(data[i]) = NumDataLines
        /\ HeaderRead => Len(field_names) = Len(data)

\* the tags a class requires and gives no default for
RequiredTags(kind) ==
    CASE kind = "Timeline" -> { TAG_DATE_FIELD }
      [] kind = "Samples" -> { TAG_X_FIELD, TAG_Y_FIELD, TAG_FROM_DT_FIELD,
                               TAG_TO_DT_FIELD, TAG_BANDS_FACTORS }
      [] OTHER -> {}

\* values that stand for the tag `name` in a well-formed file
TagTexts(name) ==
    IF name = TAG_BANDS_FACTORS THEN BandFactorTexts
    ELSE { <<"0">>, <<"1">>, <<"2">>, <<"3">> }

\* the constructor's outcome c is a success and so is the fetch_data after it
Loads(kind, c) == c.err = "none" /\ fetch_data(kind, c.o).err = "none"

\* the file lacks the tag `name` and has no other defect: with a line for
\* that tag put in front it is constructed and fetched without failure
OnlyLacks(name) ==
    /\ ~Declares(name)
    /\ \E v \in TagTexts(name) :
          Loads(input.kind,
                Construct_kind(input.kind, <<TagLine(name, v)>> \o input.lines,
                               input.has_header, input))

\* C8: get_tag_value(name, default) returns the stored value of a present
\* tag, the default for an absent tag when a default was supplied, and fails
\* with RequiredTagMissing for an absent tag without default; a table file
\* that lacks a required tag fails with RequiredTagMissing and with no other
\* failure kind.
C8_TagLookup ==
    /\ tcall.op = "get_tag_value" =>
          LET name == tcall.arg[1]
              default == tcall.arg[2]
          IN  /\ has_tag_name(tags, name) =>
                    (tcall.err = "none" /\ tcall.ret = TagVal(tags, name))
              /\ (~has_tag_name(tags, name) /\ default # PyNone) =>
                    (tcall.err = "none" /\ tcall.ret = default)
              /\ (~has_tag_name(tags, name) /\ default = PyNone) =>
                    tcall.err = "RequiredTagMissing"
    /\ \A name \in RequiredTags(input.kind) :
          (OnlyLacks(name) /\ (phase = "failed" \/ nfetch >= 1)) =>
              err = "RequiredTagMissing"

\* the base constructor accepted the samples file, both band tags were
\* parsed into lists, and the timeline and every band file can be opened
BandTagsParsed ==
    /\ input.kind = "Samples"
    /\ phase # "new"
    /\ DefaultArgs("Samples", input.lines).err = "none"
    /\ input.timeline_ok
    /\ Declares(TAG_BANDS_PATHS) /\ Declares(TAG_BANDS_FACTORS)
    /\ TagVal(tags, TAG_BANDS_PATHS).t = "list"
    /\ TagVal(tags, TAG_BANDS_FACTORS).t = "list"
    /\ \A i \in 1..Len(TagVal(tags, TAG_BANDS_PATHS).l) :
          TagVal(tags, TAG_BANDS_PATHS).l[i].s \in input.openable

\* C7: construction of a Samples extractor fails with BandsTagsError
\* whenever the lists parsed from bands_filepaths and bands_factors differ
\* in length, and after every successful construction the band list and the
\* factor list have the same length.
C7_BandsTags ==
    /\ ( /\ BandTagsParsed
         /\ Len(TagVal(tags, TAG_BANDS_PATHS).l)
                # Len(TagVal(tags, TAG_BANDS_FACTORS).l) )
       => (phase = "failed" /\ err = "BandsTagsError")
    /\ (input.kind = "Samples" /\ phase = "ready")
       => Len(bands) = Len(bands_factor)

\* a samples file with two band paths and one factor was refused
C7_Witness ==
    /\ BandTagsParsed
    /\ Len(TagVal(tags, TAG_BANDS_PATHS).l) = 2
    /\ Len(TagVal(tags, TAG_BANDS_FACTORS).l) = 1
    /\ phase = "failed"
    /\ err = "BandsTagsError"

(***************************************************************************)
(* The time-series claims                                                  *)
(***************************************************************************)
\* the doys the last read_pixel_dates call read, and the table's dates
DoysRead == tline.doy_stack.pix[scall.arg[1][1] + 1]
TableDates == tline.data[tline.date_field + 1]

\* read_pixel_dates was called on a fetched table
DatesCall == scall.op = "read_pixel_dates" /\ Len(tline.data) > 0

\* m and d name a day of the calendar
IsDate(v) ==
    /\ v.t = "date"
    /\ v.m \in 1..12
    /\ v.d \in 1..DaysInMonth(v.y, v.m)

\* the rule of date resolution: one date per row, in row order; January 1st
\* of the table date's year plus doy * factor days where the doy is not the
\* band's no-data value, the table's own date where it is
DateRule ==
    (DatesCall /\ Len(DoysRead) = Len(TableDates)) =>
        /\ scall.err = "none"
        /\ Len(scall.ret.l) = Len(TableDates)
        /\ \A i \in 1..Len(TableDates) :
              IF DoysRead[i] # tline.doy_stack.values_nodata[i]
              THEN /\ IsDate(scall.ret.l[i])
                   /\ toordinal(scall.ret.l[i])
                        = toordinal(PyDate(TableDates[i].y, 1, 1))
                          + DoysRead[i] * tline.doy_factor.m
              ELSE scall.ret.l[i] = TableDates[i]

\* row i has table date 2020-01-01 and a valid doy of 45, at factor 1
DateExampleRow(i) ==
    /\ DatesCall /\ Len(DoysRead) = Len(TableDates)
    /\ i \in 1..Len(TableDates)
    /\ TableDates[i] = PyDate(2020, 1, 1)
    /\ DoysRead[i] = 45
    /\ tline.doy_stack.values_nodata[i] # 45
    /\ tline.doy_factor = PyFloat(1, 0)

\* the example row resolves to `date`
DateExample(date) ==
    \A i \in 1..MaxLayers :
        DateExampleRow(i) => (scall.err = "none" /\ scall.ret.l[i] = date)

C6_LengthFailure ==
    (DatesCall /\ Len(DoysRead) # Len(TableDates)) =>
        (scall.err = "WrongTimeLineLength" /\ scall.ret = PyNone)

\* C6 as the claim has it: the failure kind is DiffStacksLength.
C6_AsClaimed ==
    (DatesCall /\ Len(DoysRead) # Len(TableDates)) =>
        (scall.err = "DiffStacksLength" /\ scall.ret = PyNone)

\* a read of two doys against a table of one row was refused
C6_Witness ==
    /\ DatesCall
    /\ Len(DoysRead) = 2 /\ Len(TableDates) = 1
    /\ scall.err = "WrongTimeLineLength"
    /\ scall.ret = PyNone

\* get_samples_timeseries was called with filter_sample_interval on an
\* extractor whose data is fetched and whose projection tag is present,
\* every entry of samples_index naming a row of the table
FilterCall ==
    /\ scall.op = "get_samples_timeseries"
    /\ scall.arg[2]
    /\ Len(samples.data) > 0
    /\ samples.projection_wkt.t = "str"
    /\ \A k \in 1..Len(SelectedRows(samples.data[1], scall.arg[1])) :
          SelectedRows(samples.data[1], scall.arg[1])[k] < Len(samples.data[1])

\* the table row (from 1) that the k-th selected sample is
RowOf(k) == SelectedRows(samples.data[1], scall.arg[1])[k] + 1

\* the pixel of the sample of table row n
PixelOfRow(n) ==
    geolocs_to_pixels(samples.timeline.doy_stack,
        <<ord_pair(samples.data[samples.x_field + 1][n].m,
                   samples.data[samples.y_field + 1][n].m)>>)[1]

\* the observations to keep: valid date, valid band value, and resolved
\* date within [date_from, date_to]
KeptObservations(doys, doy_nodata, values, nodata, dates, date_from, date_to) ==
    [t \in 1..Len(dates) |->
        /\ doys[t] # doy_nodata[t]
        /\ values[t] # nodata[t]
        /\ DateLe(date_from, dates[t])
        /\ DateLe(dates[t], date_to)]

\* the (values, dates) pair of band j at `pixel` for the interval of row n
IntervalPair(n, j, pixel, dates) ==
    masked_pair(read_pixel_values(samples.bands[j], pixel), dates,
        KeptObservations(read_pixel_values(samples.timeline.doy_stack, pixel),
                         samples.timeline.doy_stack.values_nodata,
                         read_pixel_values(samples.bands[j], pixel),
                         samples.bands[j].values_nodata,
                         dates,
                         samples.data[samples.from_date_field + 1][n],
                         samples.data[samples.to_date_field + 1][n]),
        samples.bands_factor[j])

\* C3: with filter_sample_interval, the k-th result entry is that of the
\* k-th selected row, its bands in the order of the band list, and each
\* (values, dates) pair keeps exactly the observations whose date is valid,
\* whose band value is not no-data and whose resolved date d satisfies
\* from <= d <= to, from and to being the dates of that same row.
C3_IntervalFilter ==
    FilterCall =>
        /\ scall.err = "none"
        /\ Len(scall.ret.l) = Len(SelectedRows(samples.data[1], scall.arg[1]))
        /\ \A k \in 1..Len(scall.ret.l) :
              /\ Len(scall.ret.l[k]) = Len(samples.bands)
              /\ \A j \in 1..Len(samples.bands) :
                    scall.ret.l[k][j] =
                        IntervalPair(RowOf(k), j, PixelOfRow(RowOf(k)),
                            read_pixel_dates(samples.timeline,
                                             PixelOfRow(RowOf(k))).ret.l)

(***************************************************************************)
(* Random sampling: Mygdal.get_random_geolocs and Mygdal.get_random_pixels *)
(*                                                                         *)
(* numpy's global generator is modelled by a linear congruential generator *)
(* of full period RngMod.  numpy.random.seed(s) puts it in a state that s  *)
(* alone determines, every number drawn advances it, and a number drawn is *)
(* the state over RngMod, a value in [0, 1).  The geolocations returned    *)
(* are kept as numerators over RngMod.                                     *)
(***************************************************************************)
RngMod == 8
MaxSeed == 1
MaxDraws == 2
MaxCalls == 3

\* numpy.random.seed(seed)
seed_state(seed) == seed % RngMod

\* the state after one number is drawn
rng_next(g) == (5 * g + 3) % RngMod

\* the state after k numbers are drawn
RECURSIVE rng_advance(_, _)
rng_advance(g, k) == IF k = 0 THEN g ELSE rng_advance(rng_next(g), k - 1)

\* numpy.random.rand(n, 2): n rows of two numbers, drawn row by row
rand(g, n) ==
    [i \in 1..n |-> <<rng_advance(g, 2 * i - 1), rng_advance(g, 2 * i)>>]

\* `if seed: numpy.random.seed(seed)`: the generator the call draws from
seeded(g, seed) == IF Truthy(seed) THEN seed_state(seed.n) ELSE g

\* conversion of a float to int: rounding toward zero
trunc(a, b) == IF a >= 0 THEN a \div b ELSE -((-a) \div b)

\* numpy.any(a < b) and numpy.any(a > b) on pairs
any_less(a, b) == a[1] < b[1] \/ a[2] < b[2]
any_greater(a, b) == a[1] > b[1] \/ a[2] > b[2]

\* the outcome of a sampling call: the value returned or the exception
\* raised, and the state the call leaves the generator in
Sampled(r, g) == [ret |-> r.ret, err |-> r.err, rng |-> g]

\* the return statement of get_random_pixels; ul and lr are the box, g the
\* generator before the draw.  The numbers are drawn before (lr - ul) is
\* evaluated, and a box narrowed on both sides has two lists to subtract.
random_pixels(g, n, ul, lr, both) ==
    IF both THEN Sampled(Exc("TypeError"), rng_advance(g, 2 * n))
    ELSE Sampled(
           Ret(PyList([i \in 1..n |->
                 <<ul[1] + trunc(rand(g, n)[i][1] * (lr[1] - ul[1]), RngMod),
                   ul[2] + trunc(rand(g, n)[i][2] * (lr[2] - ul[2]), RngMod)>>])),
           rng_advance(g, 2 * n))

\* the return statement of get_random_geolocs, in units of 1 / RngMod
random_geolocs(g, n, ul, lr, both) ==
    IF both THEN Sampled(Exc("TypeError"), rng_advance(g, 2 * n))
    ELSE Sampled(
           Ret(PyList([i \in 1..n |->
                 <<ul[1] * RngMod + rand(g, n)[i][1] * (lr[1] - ul[1]),
                   ul[2] * RngMod + rand(g, n)[i][2] * (lr[2] - ul[2])>>])),
           rng_advance(g, 2 * n))

\* the box a call samples in: the default corner, or the one supplied
narrowed(bbox, corner) == IF Truthy(bbox) THEN bbox.l ELSE corner

\* the checks of the default box and of the supplied corners, lo and hi
\* being the corners the supplied ones are compared with
checked_box(g, n, ul, lr, lo, hi, bbox_ul, bbox_lr, kind) ==
    IF any_greater(lo, hi) THEN Sampled(Exc("InvalidBoundBox"), g)
    ELSE IF Truthy(bbox_ul) /\ any_less(bbox_ul.l, lo)
    THEN Sampled(Exc("OutOfBounds"), g)
    ELSE IF Truthy(bbox_lr) /\ any_greater(bbox_lr.l, hi)
    THEN Sampled(Exc("OutOfBounds"), g)
    ELSE IF kind = "pixels"
    THEN random_pixels(g, n, narrowed(bbox_ul, ul), narrowed(bbox_lr, lr),
                       Truthy(bbox_ul) /\ Truthy(bbox_lr))
    ELSE random_geolocs(g, n, narrowed(bbox_ul, ul), narrowed(bbox_lr, lr),
                        Truthy(bbox_ul) /\ Truthy(bbox_lr))

\* Mygdal.get_random_pixels
get_random_pixels(self, g, n, bbox_ul, bbox_lr, seed) ==
    checked_box(seeded(g, seed), n,
                <<0, 0>>, <<self.size[1] - 1, self.size[2] - 1>>,
                <<0, 0>>, <<self.size[1] - 1, self.size[2] - 1>>,
                bbox_ul, bbox_lr, "pixels")

\* the corner c multiplied by numpy.sign(self.geo_resolution)
signed(self, c) ==
    <<c[1] * Sign(self.geo_resolution[1]), c[2] * Sign(self.geo_resolution[2])>>

\* Mygdal.get_random_geolocs
get_random_geolocs(self, g, n, bbox_ul, bbox_lr, seed) ==
    checked_box(seeded(g, seed), n, self.geo_ul, self.geo_lr,
                signed(self, self.geo_ul), signed(self, self.geo_lr),
                bbox_ul, bbox_lr, "geolocs")

\* ---- inputs ----
\* the raster sampled: three columns, two rows, north up
SampledRaster == MygdalInit(3, 2, <<0, 0>>, <<1, 1>>, <<0, 0>>)

\* seed: None, or an integer
Seeds == { PyNone } \cup { PyInt(v) : v \in 0..MaxSeed }

\* bbox_ul and bbox_lr: None, or a list of two coordinates
UpperLefts == { PyNone, PyList(<<1, 0>>) }
LowerRights == { PyNone, PyList(<<1, 1>>) }

\* a completed call, as the history keeps it
Sampling(fn, n, bbox_ul, bbox_lr, seed, r) ==
    [fn |-> fn, n |-> n, bbox_ul |-> bbox_ul, bbox_lr |-> bbox_lr,
     seed |-> seed, ret |-> r.ret, err |-> r.err]

\* the generator starts in a state drawn from the system's entropy
RandomInit ==
    /\ ds = SampledRaster
    /\ gcall = [op |-> "none", arg |-> <<>>, ret |-> <<>>]
    /\ rng \in 0..(RngMod - 1)
    /\ rcalls = <<>>
    /\ TIdle
    /\ SIdle
    /\ CIdle

\* the call whose outcome is r has returned or raised
Sample(fn, n, bbox_ul, bbox_lr, seed, r) ==
    /\ rng' = r.rng
    /\ rcalls' = Append(rcalls, Sampling(fn, n, bbox_ul, bbox_lr, seed, r))
    /\ UNCHANGED <<geovars, tvars, svars, cvars>>

\* a call of get_random_pixels
GetRandomPixels ==
    /\ Len(rcalls) < MaxCalls
    /\ \E n \in 1..MaxDraws, bbox_ul \in UpperLefts, bbox_lr \in LowerRights,
          seed \in Seeds :
         Sample("get_random_pixels", n, bbox_ul, bbox_lr, seed,
                get_random_pixels(ds, rng, n, bbox_ul, bbox_lr, seed))

\* a call of get_random_geolocs
GetRandomGeolocs ==
    /\ Len(rcalls) < MaxCalls
    /\ \E n \in 1..MaxDraws, bbox_ul \in UpperLefts, bbox_lr \in LowerRights,
          seed \in Seeds :
         Sample("get_random_geolocs", n, bbox_ul, bbox_lr, seed,
                get_random_geolocs(ds, rng, n, bbox_ul, bbox_lr, seed))

RandomNext ==
    \/ GetRandomPixels
    \/ GetRandomGeolocs

SpecRandom == RandomInit /\ [][RandomNext]_vars

\* C11: seeded random sampling is deterministic.  Two calls of the same
\* sampling method with the same n, the same bounds and the same integer seed
\* have the same outcome, whatever calls were made before or between them.
SameCall(a, b) ==
    /\ a.fn = b.fn
    /\ a.n = b.n
    /\ a.bbox_ul = b.bbox_ul
    /\ a.bbox_lr = b.bbox_lr
    /\ a.seed = b.seed

C11_SeededDeterminism ==
    \A i \in 1..Len(rcalls), j \in 1..Len(rcalls) :
        (/\ i < j
         /\ rcalls[i].seed # PyNone
         /\ SameCall(rcalls[i], rcalls[j]))
        => (rcalls[i].ret = rcalls[j].ret /\ rcalls[i].err = rcalls[j].err)

(***************************************************************************)
(* Lifecycle: the resources a Samples extractor holds, from construction   *)
(* through fetch_data to close.  A table is followed with its file handle  *)
(* (open, with the lines not yet read) and its data buffer (a list of      *)
(* columns, or None); a raster with its dataset handle.                    *)
(***************************************************************************)
MaxCloses == 2

\* Mygdal.close_dataset: self.dataset = None
close_dataset(self) == [self EXCEPT !.dataset = "None"]

\* the table of the parser o, as MyTCSV.__init__ leaves it: self.file is the
\* handle open() returned
Table(o) ==
    [file |-> [handle |-> "open", lines |-> o.file],
     row |-> o.row, data |-> PyList(o.data),
     field_names |-> o.field_names, tags |-> o.tags]

\* the parser of a table whose data buffer is a list
parser_of(t) == Object(t.file.lines, t.row, t.data.l, t.field_names, t.tags)

\* the table after a fetch_data that left the parser as o
fetched(t, o) ==
    [t EXCEPT !.file.lines = o.file, !.row = o.row, !.data = PyList(o.data)]

\* the outcome of a method on a table
Kept(t, e) == [t |-> t, err |-> e]

\* fetch_data on a table whose buffer is None: __process_row_data__ raises
\* at len(self.data), unless the row's conversion has raised before
fetch_closed(kind, t, r) ==
    Kept(t, IF r.err # "none" THEN r.err ELSE "TypeError")

fetch_open(t, r) == Kept(fetched(t, r.o), r.err)

\* MyTCSV.fetch_data on a table
table_fetch_data(kind, t) ==
    IF t.data = PyNone
    THEN fetch_closed(kind, t,
            process_row_data(kind,
                Object(t.file.lines, t.row, <<>>, t.field_names, t.tags)))
    ELSE fetch_open(t, fetch_data(kind, parser_of(t)))

\* MyTCSV.close: self.data = None
MyTCSV_close(t) == [t EXCEPT !.data = PyNone]

\* Timeline.close
Timeline_close(tl) ==
    [tl EXCEPT !.doy_stack = close_dataset(@), !.table = MyTCSV_close(@)]

\* Samples.close
Samples_close(s) ==
    [s EXCEPT !.bands = [i \in 1..Len(@) |-> close_dataset(@[i])],
              !.timeline = Timeline_close(@),
              !.table = MyTCSV_close(@),
              !.nclose = @ + 1]

\* Samples.fetch_data after the timeline's fetch_data, whose outcome is t
samples_fetch_super(s, t, u) ==
    [s EXCEPT !.timeline.table = t.t, !.table = u.t, !.err = u.err,
              !.nfetch = @ + 1]

samples_fetch_timeline(s, t) ==
    IF t.err # "none"
    THEN [s EXCEPT !.timeline.table = t.t, !.err = t.err, !.nfetch = @ + 1]
    ELSE samples_fetch_super(s, t, table_fetch_data("Samples", s.table))

\* Samples.fetch_data
Samples_fetch_data(s) ==
    samples_fetch_timeline(s, table_fetch_data("Timeline", s.timeline.table))

\* ---- inputs ----
\* the outcomes of the constructors on the files of the parser
\* specification, kept when the constructor returns
BuiltSamples ==
    { r \in { Construct_kind("Samples", i.lines, i.has_header, i) :
                i \in SamplesInputs } : r.err = "none" }

BuiltTimelines ==
    { r \in { Construct_kind("Timeline", i.lines, i.has_header, i) :
                i \in TimelineInputs } : r.err = "none" }

\* the extractor Samples.__init__ has built, with the Timeline it built
Extractor(s, t) ==
    [table |-> Table(s.o), bands |-> s.bands, bands_factor |-> s.bands_factor,
     timeline |-> [table |-> Table(t.o), doy_stack |-> t.doy_stack],
     err |-> "none", nfetch |-> 0, nclose |-> 0]

LifecycleInit ==
    /\ owner \in { Extractor(s, t) : s \in BuiltSamples, t \in BuiltTimelines }
    /\ GIdle
    /\ TIdle
    /\ SIdle
    /\ RIdle

\* a call of fetch_data on the extractor
OwnerFetchData ==
    /\ owner.nfetch < MaxFetch
    /\ owner' = Samples_fetch_data(owner)
    /\ UNCHANGED <<geovars, tvars, svars, rvars>>

\* a call of close on the extractor
OwnerClose ==
    /\ owner.nclose < MaxCloses
    /\ owner' = Samples_close(owner)
    /\ UNCHANGED <<geovars, tvars, svars, rvars>>

LifecycleNext ==
    \/ OwnerFetchData
    \/ OwnerClose

SpecLifecycle == LifecycleInit /\ [][LifecycleNext]_vars

\* the handles and buffers the extractor s still holds
RastersReleased(s) ==
    /\ \A i \in 1..Len(s.bands) : s.bands[i].dataset # "open"
    /\ s.timeline.doy_stack.dataset # "open"

BuffersReleased(s) == s.table.data = PyNone /\ s.timeline.table.data = PyNone

FilesReleased(s) ==
    /\ s.table.file.handle # "open"
    /\ s.timeline.table.file.handle # "open"

\* a fetch_data that returned has consumed every row of the table t
Consumed(s, t) == s.nfetch > 0 /\ s.err = "none" /\ Len(t.file.lines) = 0

\* C12: release on close.  After close() on a Samples extractor, before or
\* after fetch_data, every resource it owns is released: the dataset handle
\* of each band raster and of the Timeline's day-of-year raster, the data
\* buffers of both tables and the file handles of both tables; and a file
\* handle is released once fetch_data has consumed all its rows.
C12_ReleaseOnClose ==
    /\ owner # PyNone /\ owner.nclose > 0
        => RastersReleased(owner) /\ BuffersReleased(owner) /\ FilesReleased(owner)
    /\ owner # PyNone /\ Consumed(owner, owner.table)
        => owner.table.file.handle # "open"
    /\ owner # PyNone /\ Consumed(owner, owner.timeline.table)
        => owner.timeline.table.file.handle # "open"

====
